---- MODULE Spec2Model ----
(***************************************************************************)
(* A model of aesutil.js (src/src/aesutil.ts): key resolution, the AesUtil *)
(* facade around AES-256-GCM and its two envelope codecs.                  *)
(*                                                                         *)
(* Representation.  A Buffer is a sequence of bytes (0..255).  A JS string *)
(* is a sequence of UTF-16 code units (0..65535).  A value that may be     *)
(* undefined, a string or a Buffer is a record [t, v] with t one of        *)
(* "undefined", "string", "buffer".                                        *)
(***************************************************************************)
EXTENDS Integers, Sequences, FiniteSets, TLC

IV_BYTE_LEN == 12

KEY_BYTE_LEN == 32

AUTH_TAG_LEN == 16

(* ---------------------------------------------------------------------- *)
(* Generic helpers on sequences                                           *)
(* ---------------------------------------------------------------------- *)

Undefined == [t |-> "undefined", v |-> <<>>]

Str(s) == [t |-> "string", v |-> s]

Buf(b) == [t |-> "buffer", v |-> b]

Repeat(x, n) == [i \in 1..n |-> x]

Min(a, b) == IF a < b THEN a ELSE b

\* Buffer.subarray(start, end) with 0-based, end-exclusive, clamped indices.
Subarray(b, start, end) ==
    LET s == Min(start, Len(b))
        e == Min(end, Len(b))
    IN  IF e <= s THEN <<>> ELSE SubSeq(b, s + 1, e)

RECURSIVE Concat(_)
\* Buffer.concat(list)
Concat(list) == IF list = <<>> THEN <<>> ELSE Head(list) \o Concat(Tail(list))

RECURSIVE IndexOf(_, _, _)
\* first index >= from at which s holds c, 0 when there is none
IndexOf(s, c, from) ==
    IF from > Len(s) THEN 0
    ELSE IF s[from] = c THEN from
    ELSE IndexOf(s, c, from + 1)

RECURSIVE Split(_, _)
\* String.prototype.split(sep) for a one-character separator
Split(s, sep) ==
    LET k == IndexOf(s, sep, 1)
    IN  IF k = 0 THEN <<s>>
        ELSE <<SubSeq(s, 1, k - 1)>> \o Split(SubSeq(s, k + 1, Len(s)), sep)

RECURSIVE Join(_, _)
\* Array.prototype.join(sep)
Join(list, sep) ==
    IF list = <<>> THEN <<>>
    ELSE IF Len(list) = 1 THEN list[1]
    ELSE list[1] \o sep \o Join(Tail(list), sep)

(* ---------------------------------------------------------------------- *)
(* Character codes                                                        *)
(* ---------------------------------------------------------------------- *)

DOT == 46

EQUALS == 61

\* the 64 characters of standard Base64, by value: A-Z a-z 0-9 + /
B64Chars ==
    [i \in 1..26 |-> 64 + i] \o [i \in 1..26 |-> 96 + i] \o
    [i \in 1..10 |-> 47 + i] \o <<43, 47>>

\* the value of a Base64 character as Node's decoder reads it ('-' and '_'
\* of the URL alphabet are accepted too), 64 for any other character
Unbase64(c) ==
    IF c >= 65 /\ c <= 90 THEN c - 65
    ELSE IF c >= 97 /\ c <= 122 THEN c - 71
    ELSE IF c >= 48 /\ c <= 57 THEN c + 4
    ELSE IF c = 43 \/ c = 45 THEN 62
    ELSE IF c = 47 \/ c = 95 THEN 63
    ELSE 64

\* base64RegEx = /^[a-zA-Z0-9+/=]+$/ : non-empty, every character in the class
base64RegExTest(s) ==
    /\ Len(s) > 0
    /\ \A i \in 1..Len(s) :
          \/ s[i] >= 97 /\ s[i] <= 122
          \/ s[i] >= 65 /\ s[i] <= 90
          \/ s[i] >= 48 /\ s[i] <= 57
          \/ s[i] \in {43, 47, EQUALS}

RECURSIVE ToBase64(_)
\* buf.toString("base64"): standard alphabet, '=' padding
ToBase64(b) ==
    IF Len(b) = 0 THEN <<>>
    ELSE IF Len(b) = 1 THEN
        << B64Chars[(b[1] \div 4) + 1],
           B64Chars[((b[1] % 4) * 16) + 1], EQUALS, EQUALS >>
    ELSE IF Len(b) = 2 THEN
        << B64Chars[(b[1] \div 4) + 1],
           B64Chars[((b[1] % 4) * 16 + (b[2] \div 16)) + 1],
           B64Chars[((b[2] % 16) * 4) + 1], EQUALS >>
    ELSE
        << B64Chars[(b[1] \div 4) + 1],
           B64Chars[((b[1] % 4) * 16 + (b[2] \div 16)) + 1],
           B64Chars[((b[2] % 16) * 4 + (b[3] \div 64)) + 1],
           B64Chars[(b[3] % 64) + 1] >> \o ToBase64(SubSeq(b, 4, Len(b)))

RECURSIVE B64Sextets(_, _)
\* the 6-bit values the decoder reads: characters outside the alphabet are
\* skipped and the first '=' ends the input
B64Sextets(s, i) ==
    IF i > Len(s) \/ s[i] = EQUALS THEN <<>>
    ELSE IF Unbase64(s[i]) < 64 THEN <<Unbase64(s[i])>> \o B64Sextets(s, i + 1)
    ELSE B64Sextets(s, i + 1)

RECURSIVE B64Bytes(_)
\* groups of four sextets give three bytes; a tail of 2 gives 1, of 3 gives 2
B64Bytes(q) ==
    IF Len(q) < 2 THEN <<>>
    ELSE IF Len(q) = 2 THEN << q[1] * 4 + (q[2] \div 16) >>
    ELSE IF Len(q) = 3 THEN
        << q[1] * 4 + (q[2] \div 16), (q[2] % 16) * 16 + (q[3] \div 4) >>
    ELSE
        << q[1] * 4 + (q[2] \div 16), (q[2] % 16) * 16 + (q[3] \div 4),
           (q[3] % 4) * 64 + q[4] >> \o B64Bytes(SubSeq(q, 5, Len(q)))

\* Buffer.from(s, "base64")
FromBase64(s) == B64Bytes(B64Sextets(s, 1))

\* buf.toString("binary"): one code unit per byte
ToBinary(b) == [i \in 1..Len(b) |-> b[i]]

\* Buffer.from(s, "binary"): the low byte of each code unit
FromBinary(s) == [i \in 1..Len(s) |-> s[i] % 256]

(* ---------------------------------------------------------------------- *)
(* Text encodings (Node's BufferEncoding), as the cipher streams use them  *)
(* ---------------------------------------------------------------------- *)

REPLACEMENT == 65533

IsHighSurrogate(c) == c >= 55296 /\ c <= 56319

IsLowSurrogate(c) == c >= 56320 /\ c <= 57343

\* the UTF-8 bytes of one code point
Utf8OfCodePoint(cp) ==
    IF cp < 128 THEN <<cp>>
    ELSE IF cp < 2048 THEN << 192 + (cp \div 64), 128 + (cp % 64) >>
    ELSE IF cp < 65536 THEN
        << 224 + (cp \div 4096), 128 + ((cp \div 64) % 64), 128 + (cp % 64) >>
    ELSE
        << 240 + (cp \div 262144), 128 + ((cp \div 4096) % 64),
           128 + ((cp \div 64) % 64), 128 + (cp % 64) >>

RECURSIVE Utf8Encode(_, _)
\* Buffer.from(s, "utf8"): a surrogate pair is one code point, a lone
\* surrogate is written as U+FFFD
Utf8Encode(s, i) ==
    IF i > Len(s) THEN <<>>
    ELSE IF IsHighSurrogate(s[i]) /\ i < Len(s) /\ IsLowSurrogate(s[i + 1]) THEN
        Utf8OfCodePoint(65536 + (s[i] - 55296) * 1024 + (s[i + 1] - 56320))
            \o Utf8Encode(s, i + 2)
    ELSE IF IsHighSurrogate(s[i]) \/ IsLowSurrogate(s[i]) THEN
        Utf8OfCodePoint(REPLACEMENT) \o Utf8Encode(s, i + 1)
    ELSE Utf8OfCodePoint(s[i]) \o Utf8Encode(s, i + 1)

\* byte i of b, or -1 past its end
At(b, i) == IF i <= Len(b) THEN b[i] ELSE -1

InRange(x, lo, hi) == x >= lo /\ x <= hi

RECURSIVE Utf8Decode(_, _)
\* buf.toString("utf8"): every maximal ill-formed subsequence becomes U+FFFD
Utf8Decode(b, i) ==
    IF i > Len(b) THEN <<>>
    ELSE
    LET b0 == b[i]
        b1 == At(b, i + 1)
        b2 == At(b, i + 2)
        b3 == At(b, i + 3)
        lo1 == IF b0 = 224 THEN 160 ELSE IF b0 = 240 THEN 144 ELSE 128
        hi1 == IF b0 = 237 THEN 159 ELSE IF b0 = 244 THEN 143 ELSE 191
    IN  IF b0 < 128 THEN <<b0>> \o Utf8Decode(b, i + 1)
        ELSE IF InRange(b0, 194, 223) THEN
            IF InRange(b1, 128, 191)
            THEN << (b0 - 192) * 64 + (b1 - 128) >> \o Utf8Decode(b, i + 2)
            ELSE <<REPLACEMENT>> \o Utf8Decode(b, i + 1)
        ELSE IF InRange(b0, 224, 239) THEN
            IF ~InRange(b1, lo1, hi1) THEN <<REPLACEMENT>> \o Utf8Decode(b, i + 1)
            ELSE IF ~InRange(b2, 128, 191) THEN <<REPLACEMENT>> \o Utf8Decode(b, i + 2)
            ELSE << (b0 - 224) * 4096 + (b1 - 128) * 64 + (b2 - 128) >>
                     \o Utf8Decode(b, i + 3)
        ELSE IF InRange(b0, 240, 244) THEN
            IF ~InRange(b1, lo1, hi1) THEN <<REPLACEMENT>> \o Utf8Decode(b, i + 1)
            ELSE IF ~InRange(b2, 128, 191) THEN <<REPLACEMENT>> \o Utf8Decode(b, i + 2)
            ELSE IF ~InRange(b3, 128, 191) THEN <<REPLACEMENT>> \o Utf8Decode(b, i + 3)
            ELSE
                LET cp == (b0 - 240) * 262144 + (b1 - 128) * 4096
                            + (b2 - 128) * 64 + (b3 - 128) - 65536
                IN  << 55296 + (cp \div 1024), 56320 + (cp % 1024) >>
                        \o Utf8Decode(b, i + 4)
        ELSE <<REPLACEMENT>> \o Utf8Decode(b, i + 1)

\* the value of a hex digit, 16 for any other character
HexVal(c) ==
    IF c >= 48 /\ c <= 57 THEN c - 48
    ELSE IF c >= 97 /\ c <= 102 THEN c - 87
    ELSE IF c >= 65 /\ c <= 70 THEN c - 55
    ELSE 16

\* the lower-case hex digit of a value 0..15
HexDigit(v) == IF v < 10 THEN 48 + v ELSE 87 + v

RECURSIVE HexDecode(_, _)
\* Buffer.from(s, "hex"): pairs of digits, cut at the first pair that is not hex
HexDecode(s, i) ==
    IF i + 1 > Len(s) THEN <<>>
    ELSE IF HexVal(s[i]) = 16 \/ HexVal(s[i + 1]) = 16 THEN <<>>
    ELSE << HexVal(s[i]) * 16 + HexVal(s[i + 1]) >> \o HexDecode(s, i + 2)

RECURSIVE HexEncode(_)
\* buf.toString("hex"): two lower-case digits per byte
HexEncode(b) ==
    IF b = <<>> THEN <<>>
    ELSE << HexDigit(Head(b) \div 16), HexDigit(Head(b) % 16) >> \o HexEncode(Tail(b))

Encodings == {"utf8", "hex", "ascii"}

\* Buffer.from(s, encoding)
BufferFrom(s, encoding) ==
    IF encoding = "utf8" THEN Utf8Encode(s, 1)
    ELSE IF encoding = "hex" THEN HexDecode(s, 1)
    ELSE FromBinary(s)

\* buf.toString(encoding); "ascii" clears the high bit of every byte
BufferToString(b, encoding) ==
    IF encoding = "utf8" THEN Utf8Decode(b, 1)
    ELSE IF encoding = "hex" THEN HexEncode(b)
    ELSE [i \in 1..Len(b) |-> b[i] % 128]

\* cipher.update(data, inputEncoding) validates the encoding first: hex data
\* of odd length is rejected
validateEncoding(s, encoding) == ~(encoding = "hex" /\ Len(s) % 2 # 0)

(* ---------------------------------------------------------------------- *)
(* The platform primitive: AES-256-GCM of Node's crypto module.            *)
(* The cipher is abstracted as a length-preserving stream cipher whose     *)
(* keystream is fixed by (key, iv), and the tag as a 16-byte digest of     *)
(* key, iv, associated data and ciphertext.                                *)
(* ---------------------------------------------------------------------- *)

RECURSIVE GcmSum(_, _, _)
\* sum of x[k] * (1 + w * k) for k = i..Len(x)
GcmSum(x, w, i) ==
    IF i > Len(x) THEN 0 ELSE x[i] * (1 + w * i) + GcmSum(x, w, i + 1)

\* counter-mode encryption: position-wise, invertible, length-preserving; the
\* keystream byte at position i is fixed by the key, the IV and i
GcmCrypt(key, iv, data, encrypting) ==
    LET nonce == Len(iv) * 7 + GcmSum(iv, 0, 1) * 3 + GcmSum(iv, 1, 1) * 5
        keystream(i) == (key[((i - 1) % Len(key)) + 1] + nonce + 17 * i) % 256
    IN  [i \in 1..Len(data) |->
            IF encrypting THEN (data[i] + keystream(i)) % 256
            ELSE (data[i] + 256 - keystream(i)) % 256]

\* the full 16-byte authentication tag, a digest of the key, the IV, the
\* associated data and the ciphertext (with their lengths); absent and empty
\* associated data authenticate the same
GcmTag(key, iv, aad, ciphertext) ==
    LET x == <<Len(iv), Len(aad), Len(ciphertext)>> \o iv \o aad \o ciphertext
        s1 == GcmSum(x, 0, 1)
        s2 == GcmSum(x, 1, 1)
        half == Len(key) \div 2
    IN  [j \in 1..AUTH_TAG_LEN |->
            (key[((j - 1) % half) + 1] * 3 + key[half + ((j - 1) % half) + 1] * 5
             + s1 + (j - 1) * s2) % 256]

\* the tag lengths decipher.setAuthTag accepts for GCM
GcmTagLengths == {4, 8, 12, 13, 14, 15, 16}

Ok(value) == [ok |-> TRUE, value |-> value, error |-> ""]

Throw(error) == [ok |-> FALSE, value |-> <<>>, error |-> error]

ERR_AUTH == "Unsupported state or unable to authenticate data"

ERR_KEY_MISSING ==
    "Key not provided and AESUTIL_JS_AES_ENCRYPTION_KEY environment variable not set"

ERR_KEY_ENCODING == "Key must be a Base64-encoded string"

ERR_KEY_LENGTH == "Key must be 32 bytes when Base64-decoded"

ERR_INVALID_IV == "Invalid initialization vector"

ERR_INVALID_TAG_LENGTH == "Invalid authentication tag length"

ERR_INVALID_ARG_TYPE == "The first argument must be of type string or an instance of Buffer"

ERR_INVALID_ARG_VALUE == "The argument 'encoding' is invalid for data of this length"

ERR_INVALID_KEY_LENGTH == "Invalid key length"

(* ---------------------------------------------------------------------- *)
(* Key resolution and construction                                        *)
(* ---------------------------------------------------------------------- *)

\* JavaScript truthiness of an optional string or Buffer: undefined and the
\* empty string are falsy, every Buffer (an object) is truthy
Truthy(x) == x.t = "buffer" \/ (x.t = "string" /\ Len(x.v) > 0)

\* getCipherKey with the length test written as "shorter than"
getCipherKey_atLeast(providedKey, envKey) ==
    LET keyCandidate == IF Truthy(providedKey) THEN providedKey ELSE envKey
        keyBytes == IF keyCandidate.t = "string"
                    THEN FromBase64(keyCandidate.v)
                    ELSE keyCandidate.v
    IN  IF ~Truthy(keyCandidate) THEN Throw(ERR_KEY_MISSING)
        ELSE IF keyCandidate.t = "string" /\ ~base64RegExTest(keyCandidate.v)
        THEN Throw(ERR_KEY_ENCODING)
        ELSE IF Len(keyBytes) < KEY_BYTE_LEN THEN Throw(ERR_KEY_LENGTH)
        ELSE Ok(keyBytes)

\* getCipherKey decoding and measuring the candidate before it tests the
\* alphabet
getCipherKey_lengthFirst(providedKey, envKey) ==
    LET keyCandidate == IF Truthy(providedKey) THEN providedKey ELSE envKey
        keyBytes == IF keyCandidate.t = "string"
                    THEN FromBase64(keyCandidate.v)
                    ELSE keyCandidate.v
    IN  IF ~Truthy(keyCandidate) THEN Throw(ERR_KEY_MISSING)
        ELSE IF Len(keyBytes) # KEY_BYTE_LEN THEN Throw(ERR_KEY_LENGTH)
        ELSE IF keyCandidate.t = "string" /\ ~base64RegExTest(keyCandidate.v)
        THEN Throw(ERR_KEY_ENCODING)
        ELSE Ok(keyBytes)

\* getCipherKey with the operands of || exchanged: the environment first
getCipherKey_envFirst(providedKey, envKey) ==
    LET keyCandidate == IF Truthy(envKey) THEN envKey ELSE providedKey
        keyBytes == IF keyCandidate.t = "string"
                    THEN FromBase64(keyCandidate.v)
                    ELSE keyCandidate.v
    IN  IF ~Truthy(keyCandidate) THEN Throw(ERR_KEY_MISSING)
        ELSE IF keyCandidate.t = "string" /\ ~base64RegExTest(keyCandidate.v)
        THEN Throw(ERR_KEY_ENCODING)
        ELSE IF Len(keyBytes) # KEY_BYTE_LEN THEN Throw(ERR_KEY_LENGTH)
        ELSE Ok(keyBytes)

\* getCipherKey(providedKey), with the module constant passed as envKey
getCipherKey(providedKey, envKey) ==
    LET keyCandidate == IF Truthy(providedKey) THEN providedKey ELSE envKey
        keyBytes == IF keyCandidate.t = "string"
                    THEN FromBase64(keyCandidate.v)
                    ELSE keyCandidate.v
    IN  IF ~Truthy(keyCandidate) THEN Throw(ERR_KEY_MISSING)
        ELSE IF keyCandidate.t = "string" /\ ~base64RegExTest(keyCandidate.v)
        THEN Throw(ERR_KEY_ENCODING)
        ELSE IF Len(keyBytes) # KEY_BYTE_LEN THEN Throw(ERR_KEY_LENGTH)
        ELSE Ok(keyBytes)

\* constructor arguments: a key given directly (or nothing), or a params object
KeyArg(providedKey) ==
    [kind |-> "key", providedKey |-> providedKey,
     binaryMode |-> [t |-> "undefined", v |-> FALSE],
     plaintextEncoding |-> [t |-> "undefined", v |-> ""]]

ParamsArg(providedKey, binaryMode, plaintextEncoding) ==
    [kind |-> "params", providedKey |-> providedKey,
     binaryMode |-> binaryMode, plaintextEncoding |-> plaintextEncoding]

\* the constructor without the assignment of plaintextEncoding
AesUtil_encodingDropped(arg, envKey) ==
    LET k == getCipherKey(arg.providedKey, envKey)
    IN  IF ~k.ok THEN k
        ELSE IF arg.kind = "key" THEN
            Ok([key |-> k.value, binaryMode |-> FALSE, plaintextEncoding |-> "utf8"])
        ELSE
            Ok([key |-> k.value,
                binaryMode |-> IF arg.binaryMode.t = "boolean" /\ arg.binaryMode.v
                               THEN arg.binaryMode.v ELSE FALSE,
                plaintextEncoding |-> "utf8"])

\* new AesUtil(arg): the instance, or the error getCipherKey throws
AesUtil(arg, envKey) ==
    LET k == getCipherKey(arg.providedKey, envKey)
    IN  IF ~k.ok THEN k
        ELSE IF arg.kind = "key" THEN
            Ok([key |-> k.value, binaryMode |-> FALSE, plaintextEncoding |-> "utf8"])
        ELSE
            Ok([key |-> k.value,
                binaryMode |-> IF arg.binaryMode.t = "boolean" /\ arg.binaryMode.v
                               THEN arg.binaryMode.v ELSE FALSE,
                plaintextEncoding |->
                    IF arg.plaintextEncoding.t = "string"
                       /\ arg.plaintextEncoding.v # ""
                    THEN arg.plaintextEncoding.v ELSE "utf8"])

(* ---------------------------------------------------------------------- *)
(* The envelope codec                                                     *)
(* ---------------------------------------------------------------------- *)

Parts(iv, authTag, ciphertext) ==
    [iv |-> iv, authTag |-> authTag, ciphertext |-> ciphertext]

\* encodeOutput with the parts in the order iv, ciphertext, authTag
encodeOutput_tagLast(this, parts) ==
    LET orderedParts == <<parts.iv, parts.ciphertext, parts.authTag>>
    IN  IF this.binaryMode
        THEN ToBinary(Concat(orderedParts))
        ELSE Join([i \in 1..3 |-> ToBase64(orderedParts[i])], <<DOT>>)

\* AesUtil.encodeOutput(parts)
encodeOutput(this, parts) ==
    LET orderedParts == <<parts.iv, parts.authTag, parts.ciphertext>>
    IN  IF this.binaryMode
        THEN ToBinary(Concat(orderedParts))
        ELSE Join([i \in 1..3 |-> ToBase64(orderedParts[i])], <<DOT>>)

\* decodeInput with the tag's subarray given a length where an end belongs
decodeInput_endAsLength(this, encrypted) ==
    IF this.binaryMode THEN
        LET encryptedBytes == FromBinary(encrypted)
        IN  Ok(Parts(Subarray(encryptedBytes, 0, IV_BYTE_LEN),
                     Subarray(encryptedBytes, IV_BYTE_LEN, 16),
                     Subarray(encryptedBytes, IV_BYTE_LEN + 16, Len(encryptedBytes))))
    ELSE
        LET fields == Split(encrypted, DOT)
        IN  IF Len(fields) < 3 THEN Throw(ERR_INVALID_ARG_TYPE)
            ELSE Ok(Parts(FromBase64(fields[1]), FromBase64(fields[2]),
                          FromBase64(fields[3])))

\* AesUtil.decodeInput(encrypted): the parts, or the error Buffer.from throws
\* for a field the destructuring left undefined
decodeInput(this, encrypted) ==
    IF this.binaryMode THEN
        LET encryptedBytes == FromBinary(encrypted)
        IN  Ok(Parts(Subarray(encryptedBytes, 0, IV_BYTE_LEN),
                     Subarray(encryptedBytes, IV_BYTE_LEN, IV_BYTE_LEN + 16),
                     Subarray(encryptedBytes, IV_BYTE_LEN + 16, Len(encryptedBytes))))
    ELSE
        LET fields == Split(encrypted, DOT)
        IN  IF Len(fields) < 3 THEN Throw(ERR_INVALID_ARG_TYPE)
            ELSE Ok(Parts(FromBase64(fields[1]), FromBase64(fields[2]),
                          FromBase64(fields[3])))

(* ---------------------------------------------------------------------- *)
(* The facade                                                             *)
(* ---------------------------------------------------------------------- *)

\* the associated data written without the test for a truthy value, the
\* argument coerced to a string: an absent one binds the word 'undefined'
AadBytes_coerced(associatedData) ==
    IF associatedData = Undefined
    THEN <<117, 110, 100, 101, 102, 105, 110, 101, 100>>
    ELSE BufferFrom(associatedData.v, "utf8")

\* the bytes setAAD receives: none unless associatedData is truthy
AadBytes(associatedData) ==
    IF Truthy(associatedData) THEN BufferFrom(associatedData.v, "utf8") ELSE <<>>

\* encrypt as it was before plaintextEncoding existed: the plaintext is
\* always written as UTF-8
encrypt_utf8(this, plaintext, associatedData, iv) ==
    IF Len(this.key) # KEY_BYTE_LEN THEN Throw(ERR_INVALID_KEY_LENGTH)
    ELSE IF Len(iv) = 0 THEN Throw(ERR_INVALID_IV)
    ELSE
        LET aad == AadBytes(associatedData)
            ciphertext == GcmCrypt(this.key, iv, BufferFrom(plaintext, "utf8"), TRUE)
            authTag == GcmTag(this.key, iv, aad, ciphertext)
            parts == Parts(iv, authTag, ciphertext)
        IN  [ok |-> TRUE, value |-> encodeOutput(this, parts), error |-> "",
             parts |-> parts]

\* encrypt taking its IV from the instance (the first bytes of the key)
\* where it should use the bytes getIv drew for this call
encrypt_ivOfInstance(this, plaintext, associatedData, iv) ==
    IF Len(this.key) # KEY_BYTE_LEN THEN Throw(ERR_INVALID_KEY_LENGTH)
    ELSE IF Len(iv) = 0 THEN Throw(ERR_INVALID_IV)
    ELSE IF ~validateEncoding(plaintext, this.plaintextEncoding)
    THEN Throw(ERR_INVALID_ARG_VALUE)
    ELSE
        LET stored == SubSeq(this.key, 1, IV_BYTE_LEN)
            aad == AadBytes(associatedData)
            ciphertext == GcmCrypt(this.key, stored,
                                   BufferFrom(plaintext, this.plaintextEncoding), TRUE)
            authTag == GcmTag(this.key, stored, aad, ciphertext)
            parts == Parts(stored, authTag, ciphertext)
        IN  [ok |-> TRUE, value |-> encodeOutput(this, parts), error |-> "",
             parts |-> parts]

\* AesUtil.encrypt(plaintext, associatedData), iv being what getIv returned.
\* The result also carries the parts that were encoded, for the history of
\* the envelope.
encrypt(this, plaintext, associatedData, iv) ==
    IF Len(this.key) # KEY_BYTE_LEN THEN Throw(ERR_INVALID_KEY_LENGTH)
    ELSE IF Len(iv) = 0 THEN Throw(ERR_INVALID_IV)
    ELSE IF ~validateEncoding(plaintext, this.plaintextEncoding)
    THEN Throw(ERR_INVALID_ARG_VALUE)
    ELSE
        LET aad == AadBytes(associatedData)
            ciphertext == GcmCrypt(this.key, iv,
                                   BufferFrom(plaintext, this.plaintextEncoding), TRUE)
            authTag == GcmTag(this.key, iv, aad, ciphertext)
            parts == Parts(iv, authTag, ciphertext)
        IN  [ok |-> TRUE, value |-> encodeOutput(this, parts), error |-> "",
             parts |-> parts]

\* decrypt as it was before plaintextEncoding existed: the recovered bytes
\* are always read as UTF-8
decrypt_utf8(this, encrypted, associatedData) ==
    LET decoded == decodeInput(this, encrypted)
        parts == decoded.value
        aad == AadBytes(associatedData)
    IN  IF ~decoded.ok THEN decoded
        ELSE IF Len(this.key) # KEY_BYTE_LEN THEN Throw(ERR_INVALID_KEY_LENGTH)
        ELSE IF Len(parts.iv) = 0 THEN Throw(ERR_INVALID_IV)
        ELSE IF Len(parts.authTag) \notin GcmTagLengths
        THEN Throw(ERR_INVALID_TAG_LENGTH)
        ELSE IF parts.authTag #
                  SubSeq(GcmTag(this.key, parts.iv, aad, parts.ciphertext),
                         1, Len(parts.authTag))
        THEN Throw(ERR_AUTH)
        ELSE Ok(BufferToString(GcmCrypt(this.key, parts.iv, parts.ciphertext, FALSE),
                               "utf8"))

\* decrypt without the call of decipher.setAAD
decrypt_noAad(this, encrypted, associatedData) ==
    LET decoded == decodeInput(this, encrypted)
        parts == decoded.value
    IN  IF ~decoded.ok THEN decoded
        ELSE IF Len(this.key) # KEY_BYTE_LEN THEN Throw(ERR_INVALID_KEY_LENGTH)
        ELSE IF Len(parts.iv) = 0 THEN Throw(ERR_INVALID_IV)
        ELSE IF Len(parts.authTag) \notin GcmTagLengths
        THEN Throw(ERR_INVALID_TAG_LENGTH)
        ELSE IF parts.authTag #
                  SubSeq(GcmTag(this.key, parts.iv, <<>>, parts.ciphertext),
                         1, Len(parts.authTag))
        THEN Throw(ERR_AUTH)
        ELSE Ok(BufferToString(GcmCrypt(this.key, parts.iv, parts.ciphertext, FALSE),
                               this.plaintextEncoding))

\* decrypt without the call of decipher.final: what update returned is
\* handed back and the tag is never verified
decrypt_noFinal(this, encrypted, associatedData) ==
    LET decoded == decodeInput(this, encrypted)
        parts == decoded.value
    IN  IF ~decoded.ok THEN decoded
        ELSE IF Len(this.key) # KEY_BYTE_LEN THEN Throw(ERR_INVALID_KEY_LENGTH)
        ELSE IF Len(parts.iv) = 0 THEN Throw(ERR_INVALID_IV)
        ELSE IF Len(parts.authTag) \notin GcmTagLengths
        THEN Throw(ERR_INVALID_TAG_LENGTH)
        ELSE Ok(BufferToString(GcmCrypt(this.key, parts.iv, parts.ciphertext, FALSE),
                               this.plaintextEncoding))

\* decrypt catching the error of decipher.final and naming what it found:
\* a tag that fits the ciphertext without the associated data
decrypt_namedCause(this, encrypted, associatedData) ==
    LET decoded == decodeInput(this, encrypted)
        parts == decoded.value
        aad == AadBytes(associatedData)
    IN  IF ~decoded.ok THEN decoded
        ELSE IF Len(this.key) # KEY_BYTE_LEN THEN Throw(ERR_INVALID_KEY_LENGTH)
        ELSE IF Len(parts.iv) = 0 THEN Throw(ERR_INVALID_IV)
        ELSE IF Len(parts.authTag) \notin GcmTagLengths
        THEN Throw(ERR_INVALID_TAG_LENGTH)
        ELSE IF parts.authTag #
                  SubSeq(GcmTag(this.key, parts.iv, aad, parts.ciphertext),
                         1, Len(parts.authTag))
        THEN IF parts.authTag =
                  SubSeq(GcmTag(this.key, parts.iv, <<>>, parts.ciphertext),
                         1, Len(parts.authTag))
             THEN Throw("Associated data does not match")
             ELSE Throw(ERR_AUTH)
        ELSE Ok(BufferToString(GcmCrypt(this.key, parts.iv, parts.ciphertext, FALSE),
                               this.plaintextEncoding))

\* AesUtil.decrypt(encrypted, associatedData)
decrypt(this, encrypted, associatedData) ==
    LET decoded == decodeInput(this, encrypted)
        parts == decoded.value
        aad == AadBytes(associatedData)
    IN  IF ~decoded.ok THEN decoded
        ELSE IF Len(this.key) # KEY_BYTE_LEN THEN Throw(ERR_INVALID_KEY_LENGTH)
        ELSE IF Len(parts.iv) = 0 THEN Throw(ERR_INVALID_IV)
        ELSE IF Len(parts.authTag) \notin GcmTagLengths
        THEN Throw(ERR_INVALID_TAG_LENGTH)
        ELSE IF parts.authTag #
                  SubSeq(GcmTag(this.key, parts.iv, aad, parts.ciphertext),
                         1, Len(parts.authTag))
        THEN Throw(ERR_AUTH)
        ELSE Ok(BufferToString(GcmCrypt(this.key, parts.iv, parts.ciphertext, FALSE),
                               this.plaintextEncoding))

\* the outcome of a call without the parts encrypt adds to it
Outcome(r) == [ok |-> r.ok, value |-> r.value, error |-> r.error]

\* encryptValue with the branches of its conditional exchanged
encryptValue_swapped(value, associatedData, key, iv, envKey) ==
    LET made == IF Truthy(key) THEN AesUtil(KeyArg(Undefined), envKey)
                ELSE AesUtil(KeyArg(key), envKey)
    IN  IF ~made.ok THEN made
        ELSE Outcome(encrypt(made.value, value, associatedData, iv))

\* encryptValue(value, associatedData, key), iv being what getIv returns
encryptValue(value, associatedData, key, iv, envKey) ==
    LET made == IF Truthy(key) THEN AesUtil(KeyArg(key), envKey)
                ELSE AesUtil(KeyArg(Undefined), envKey)
    IN  IF ~made.ok THEN made
        ELSE Outcome(encrypt(made.value, value, associatedData, iv))

\* decryptValue(value, associatedData, key)
decryptValue(value, associatedData, key, envKey) ==
    LET made == IF Truthy(key) THEN AesUtil(KeyArg(key), envKey)
                ELSE AesUtil(KeyArg(Undefined), envKey)
    IN  IF ~made.ok THEN made
        ELSE decrypt(made.value, value, associatedData)

(* ---------------------------------------------------------------------- *)
(* The functional interface of src/unnamed/part_003, whose encryptValue   *)
(* takes an optional IV                                                   *)
(* ---------------------------------------------------------------------- *)

ERR_IV_ENCODING == "Provided IV must be Base64-encoded if string"

ERR_IV_LENGTH == "Provided IV must be 12 bytes long"

\* getIv without its test of the length
getIv_anyLength(providedIv, randomBytes) ==
    LET decoded == IF providedIv.t = "string"
                   THEN Buf(FromBase64(providedIv.v)) ELSE providedIv
    IN  IF providedIv.t = "string" /\ ~base64RegExTest(providedIv.v)
        THEN Throw(ERR_IV_ENCODING)
        ELSE Ok(IF Truthy(decoded) THEN decoded.v ELSE randomBytes)

\* getIv(providedIv), randomBytes being what crypto.randomBytes(IV_BYTE_LEN)
\* returns when it is called
getIv(providedIv, randomBytes) ==
    LET decoded == IF providedIv.t = "string"
                   THEN Buf(FromBase64(providedIv.v)) ELSE providedIv
    IN  IF providedIv.t = "string" /\ ~base64RegExTest(providedIv.v)
        THEN Throw(ERR_IV_ENCODING)
        ELSE IF Truthy(decoded) /\ Len(decoded.v) # IV_BYTE_LEN
        THEN Throw(ERR_IV_LENGTH)
        ELSE Ok(IF Truthy(decoded) THEN decoded.v ELSE randomBytes)

\* encryptValue(value, associatedData, key, iv) of part_003: the IV is
\* resolved first, then the key; the envelope is the text envelope of UTF-8
\* plaintext
encryptValueIv(value, associatedData, key, iv, randomBytes, envKey) ==
    LET _iv == getIv(iv, randomBytes)
        _key == getCipherKey(key, envKey)
    IN  IF ~_iv.ok THEN _iv
        ELSE IF ~_key.ok THEN _key
        ELSE LET aad == AadBytes(associatedData)
                 ciphertext == GcmCrypt(_key.value, _iv.value,
                                        BufferFrom(value, "utf8"), TRUE)
                 authTag == GcmTag(_key.value, _iv.value, aad, ciphertext)
             IN  Ok(Join(<<ToBase64(_iv.value), ToBase64(authTag),
                           ToBase64(ciphertext)>>, <<DOT>>))

(* ---------------------------------------------------------------------- *)
(* Bounds and input sets                                                  *)
(* ---------------------------------------------------------------------- *)

\* longest plaintext string, in code units
MaxPlainLen == 2

\* how far around KEY_BYTE_LEN the lengths of key candidates range
KeyLenSlack == 1

\* '4', 'A' and U+00E9: a digit, an upper-case hex digit, a non-ASCII letter
PlainChars == {52, 65, 233}

RECURSIVE StringsUpTo(_, _)
StringsUpTo(chars, n) ==
    IF n = 0 THEN {<<>>}
    ELSE LET shorter == StringsUpTo(chars, n - 1)
         IN  shorter \cup {Append(s, c) : s \in {t \in shorter : Len(t) = n - 1},
                                              c \in chars}

Plaintexts == StringsUpTo(PlainChars, MaxPlainLen)

\* absent, "", "A", "B"
AssociatedDatas == {Undefined, Str(<<>>), Str(<<65>>), Str(<<66>>)}

\* what crypto.randomBytes(IV_BYTE_LEN) may return: "aaaaaaaaaaaa" (the IV
\* of the tests), bytes that are no text, and "AAAA.BBBBBB.", which read as
\* text has two dots
Ivs ==
    {Repeat(97, IV_BYTE_LEN), [i \in 1..IV_BYTE_LEN |-> (i * 37) % 256],
     <<65, 65, 65, 65, DOT, 66, 66, 66, 66, 66, 66, DOT>>}

K1 == Repeat(98, KEY_BYTE_LEN)

KE == [i \in 1..KEY_BYTE_LEN |-> (i * 7 + 1) % 256]

\* key candidates: Buffers around the right length, the lengths of the
\* tests (24, 42), nothing, and Base64 and non-Base64 strings
KeyCandidateLens ==
    {0, 24, 42} \cup ((KEY_BYTE_LEN - KeyLenSlack)..(KEY_BYTE_LEN + KeyLenSlack))

KeyCandidates ==
    {Undefined, Str(<<>>), Str(Repeat(33, KEY_BYTE_LEN)),
     Str(Append(ToBase64(K1), 33)), Str(<<EQUALS>>)}
    \cup {Buf(Repeat(98, n)) : n \in KeyCandidateLens}
    \cup {Str(ToBase64(Repeat(98, n))) : n \in KeyCandidateLens \ {0}}

BinaryModes == {[t |-> "undefined", v |-> FALSE],
                [t |-> "boolean", v |-> FALSE], [t |-> "boolean", v |-> TRUE]}

PlaintextEncodings ==
    {[t |-> "undefined", v |-> ""]} \cup {[t |-> "string", v |-> e] : e \in Encodings}

\* the process environment at import: unset, empty, a valid key, a short
\* key, a string that is not Base64
EnvValues ==
    {Undefined, Str(<<>>), Str(ToBase64(KE)), Str(ToBase64(Repeat(99, 24))),
     Str(Repeat(33, 4))}

\* the keys given to encryptValue and decryptValue: none, "", a Buffer, a
\* Base64 string, a Buffer that is too short
WrapperKeys ==
    {Undefined, Str(<<>>), Buf(K1), Str(ToBase64(K1)), Buf(Repeat(98, 24))}

\* how far around IV_BYTE_LEN the lengths of IV candidates range
IvLenSlack == 1

\* IV candidates: Buffers around the right length and of 24 bytes, nothing,
\* and Base64 and non-Base64 strings
IvCandidateLens ==
    {0, 24} \cup ((IV_BYTE_LEN - IvLenSlack)..(IV_BYTE_LEN + IvLenSlack))

IvCandidates ==
    {Undefined, Str(<<>>), Str(Repeat(33, 16)),
     Str(Append(ToBase64(Repeat(97, IV_BYTE_LEN)), 33)), Str(<<EQUALS>>)}
    \cup {Buf(Repeat(97, n)) : n \in IvCandidateLens}
    \cup {Str(ToBase64(Repeat(97, n))) : n \in IvCandidateLens \ {0}}

\* constructor arguments of the key-resolution specification
KeyCtorArgs ==
    {KeyArg(k) : k \in KeyCandidates}
    \cup {ParamsArg(k, b, e) : k \in KeyCandidates, b \in BinaryModes,
                               e \in PlaintextEncodings}

\* constructor arguments of the facade specification
FacadeCtorArgs ==
    {KeyArg(Undefined), KeyArg(Buf(Repeat(98, 24)))}
    \cup {ParamsArg(Buf(K1), b, e) :
            b \in {[t |-> "undefined", v |-> FALSE], [t |-> "boolean", v |-> TRUE]},
            e \in PlaintextEncodings \ {[t |-> "string", v |-> "utf8"]}}
    \cup {ParamsArg(Undefined, [t |-> "boolean", v |-> TRUE],
                    [t |-> "string", v |-> "utf8"])}

(* ---------------------------------------------------------------------- *)
(* State                                                                  *)
(* ---------------------------------------------------------------------- *)

VARIABLES
    processEnv,                     \* process.env.AESUTIL_JS_AES_ENCRYPTION_KEY as it is now
    AESUTIL_JS_AES_ENCRYPTION_KEY,  \* the module constant read from process.env
    aesUtil,                        \* the instance the program holds
    earlier,                        \* the envelope of the encrypt call before the last
    sent,                           \* the last envelope encrypt returned, and its inputs
    wire,                           \* the envelope on its way to decrypt
    lastCall,                       \* the last call made and what it returned or threw
    pc                              \* where the program is

vars == <<processEnv, AESUTIL_JS_AES_ENCRYPTION_KEY, aesUtil, earlier, sent, wire,
          lastCall, pc>>

NoInstance == [key |-> <<>>, binaryMode |-> FALSE, plaintextEncoding |-> "utf8"]

NoParts == Parts(<<>>, <<>>, <<>>)

NoSent ==
    [made |-> FALSE, this |-> NoInstance, plaintext |-> <<>>,
     associatedData |-> Undefined, iv |-> <<>>, parts |-> NoParts, out |-> <<>>]

NoWire == [present |-> FALSE, s |-> <<>>, change |-> "none"]

Call(op, this, input, associatedData, result) ==
    [op |-> op, this |-> this, input |-> input,
     associatedData |-> associatedData, result |-> result]

NoCall == Call("none", NoInstance, <<>>, Undefined, Ok(<<>>))

Bit(b) == IF b THEN 1 ELSE 0

\* in how many ways instance `this`, handed envelope w with associated data
\* a, differs from the sender of the envelope
Faults(this, w, a) ==
    IF ~sent.made THEN 0
    ELSE Bit(this.key # sent.this.key)
         + Bit(this.binaryMode # sent.this.binaryMode)
         + Bit(this.plaintextEncoding # sent.this.plaintextEncoding)
         + Bit(w.change # "none")
         + Bit(AadBytes(a) # AadBytes(sent.associatedData))

(* ---------------------------------------------------------------------- *)
(* Actions.  The program constructs an instance, encrypts, and decrypts    *)
(* what arrives; between encrypt and decrypt the envelope may be modified  *)
(* or the receiving instance constructed anew.  The receiving side differs *)
(* from the sending side in at most one way.  An uncaught exception ends   *)
(* the program.                                                            *)
(* ---------------------------------------------------------------------- *)

\* aesUtil = new AesUtil(arg); a throwing constructor assigns nothing
Construct(arg) ==
    LET r == AesUtil(arg, AESUTIL_JS_AES_ENCRYPTION_KEY)
    IN  /\ pc \in {"start", "sent"}
        /\ r.ok => Faults(r.value, wire, sent.associatedData) <= 1
        /\ aesUtil' = IF r.ok THEN r.value ELSE aesUtil
        /\ lastCall' = Call("new", aesUtil, arg, Undefined, r)
        /\ pc' = IF ~r.ok THEN "done" ELSE IF pc = "start" THEN "ready" ELSE "receiver"
        /\ UNCHANGED <<processEnv, AESUTIL_JS_AES_ENCRYPTION_KEY, earlier, sent, wire>>

\* Encrypt keeping the IV it drew in a field of the instance
Encrypt_keepsIv(plaintext, associatedData, iv) ==
    LET r == encrypt(aesUtil, plaintext, associatedData, iv)
    IN  /\ \/ pc = "ready"
           \/ /\ pc = "sent"
              /\ plaintext = sent.plaintext
              /\ \/ associatedData = sent.associatedData
                 \/ {associatedData, sent.associatedData} = {Undefined, Str(<<>>)}
        /\ lastCall' = Call("encrypt", aesUtil, plaintext, associatedData,
                            [ok |-> r.ok, value |-> r.value, error |-> r.error])
        /\ aesUtil' = [key |-> aesUtil.key, binaryMode |-> aesUtil.binaryMode,
                       plaintextEncoding |-> aesUtil.plaintextEncoding, iv |-> iv]
        /\ IF r.ok
           THEN /\ earlier' = sent
                /\ sent' = [made |-> TRUE, this |-> aesUtil, plaintext |-> plaintext,
                            associatedData |-> associatedData, iv |-> iv,
                            parts |-> r.parts, out |-> r.value]
                /\ wire' = [present |-> TRUE, s |-> r.value, change |-> "none"]
                /\ pc' = IF pc = "ready" THEN "sent" ELSE "done"
           ELSE /\ pc' = "done"
                /\ UNCHANGED <<earlier, sent, wire>>
        /\ UNCHANGED <<processEnv, AESUTIL_JS_AES_ENCRYPTION_KEY>>

\* out = aesUtil.encrypt(plaintext, associatedData), with the IV getIv draws;
\* the program may encrypt the same plaintext and associated data a second
\* time and compare the two envelopes
Encrypt(plaintext, associatedData, iv) ==
    LET r == encrypt(aesUtil, plaintext, associatedData, iv)
    IN  /\ \/ pc = "ready"
           \/ /\ pc = "sent"
              /\ plaintext = sent.plaintext
              /\ \/ associatedData = sent.associatedData
                 \/ {associatedData, sent.associatedData} = {Undefined, Str(<<>>)}
        /\ lastCall' = Call("encrypt", aesUtil, plaintext, associatedData,
                            [ok |-> r.ok, value |-> r.value, error |-> r.error])
        /\ IF r.ok
           THEN /\ earlier' = sent
                /\ sent' = [made |-> TRUE, this |-> aesUtil, plaintext |-> plaintext,
                            associatedData |-> associatedData, iv |-> iv,
                            parts |-> r.parts, out |-> r.value]
                /\ wire' = [present |-> TRUE, s |-> r.value, change |-> "none"]
                /\ pc' = IF pc = "ready" THEN "sent" ELSE "done"
           ELSE /\ pc' = "done"
                /\ UNCHANGED <<earlier, sent, wire>>
        /\ UNCHANGED <<processEnv, AESUTIL_JS_AES_ENCRYPTION_KEY, aesUtil>>

\* aesUtil.decrypt(wire, associatedData)
Decrypt(associatedData) ==
    /\ pc \in {"sent", "altered", "receiver"}
    /\ Faults(aesUtil, wire, associatedData) <= 1
    /\ lastCall' = Call("decrypt", aesUtil, wire.s, associatedData,
                        decrypt(aesUtil, wire.s, associatedData))
    /\ pc' = "done"
    /\ UNCHANGED <<processEnv, AESUTIL_JS_AES_ENCRYPTION_KEY, earlier, aesUtil, sent, wire>>

\* parts with byte pos of part `name` changed by delta
WithByteChanged(parts, name, pos, delta) ==
    LET change(b) == [b EXCEPT ![pos] = (b[pos] + delta) % 256]
    IN  IF name = "iv" THEN Parts(change(parts.iv), parts.authTag, parts.ciphertext)
        ELSE IF name = "authTag"
        THEN Parts(parts.iv, change(parts.authTag), parts.ciphertext)
        ELSE Parts(parts.iv, parts.authTag, change(parts.ciphertext))

PartNames == {"iv", "authTag", "ciphertext"}

\* the envelope is modified in transit: one byte of one part is changed (the
\* first byte raised, or the last one lowered) and the parts are written
\* back in the sender's wire format
TamperByte(name, last) ==
    LET field == IF name = "iv" THEN sent.parts.iv
                 ELSE IF name = "authTag" THEN sent.parts.authTag
                 ELSE sent.parts.ciphertext
        pos == IF last THEN Len(field) ELSE 1
        delta == IF last THEN 255 ELSE 1
    IN  /\ pc = "sent"
        /\ Len(field) > 0
        /\ wire' = [present |-> TRUE,
                    s |-> encodeOutput(sent.this,
                                       WithByteChanged(sent.parts, name, pos, delta)),
                    change |-> name]
        /\ pc' = "altered"
        /\ UNCHANGED <<processEnv, AESUTIL_JS_AES_ENCRYPTION_KEY, earlier, aesUtil, sent, lastCall>>

\* the Base64 character whose 6-bit value differs from that of c in the
\* lowest bit
LowBitFlipped(c) ==
    LET v == Unbase64(c) IN B64Chars[(IF v % 2 = 0 THEN v + 1 ELSE v - 1) + 1]

\* the index of the last character of s that is not '=' padding
RECURSIVE LastDataChar(_)
LastDataChar(s) ==
    IF s = <<>> THEN 0
    ELSE IF s[Len(s)] = EQUALS THEN LastDataChar(SubSeq(s, 1, Len(s) - 1))
    ELSE Len(s)

\* a text envelope is modified in transit: one character of one field (its
\* first, or its last before the padding) is replaced by another Base64
\* character
TamperChar(k, last) ==
    LET fields == Split(wire.s, DOT)
        pos == IF last THEN LastDataChar(fields[k]) ELSE 1
        changed == [fields EXCEPT ![k][pos] = LowBitFlipped(fields[k][pos])]
    IN  /\ pc = "sent"
        /\ ~sent.this.binaryMode
        /\ Len(fields[k]) > 0
        /\ wire' = [present |-> TRUE, s |-> Join(changed, <<DOT>>), change |-> "char"]
        /\ pc' = "altered"
        /\ UNCHANGED <<processEnv, AESUTIL_JS_AES_ENCRYPTION_KEY, earlier, aesUtil, sent, lastCall>>

\* the lengths a binary envelope is cut to
TruncateLens == {0, IV_BYTE_LEN, IV_BYTE_LEN + 4, IV_BYTE_LEN + AUTH_TAG_LEN - 1}

\* the lengths the tag field of a text envelope is cut to
ShortTagLens == {3, 4, AUTH_TAG_LEN - 1}

\* a text envelope gains a fourth field, loses its last one, or keeps only
\* the first n bytes of its tag; a binary envelope loses the bytes after the
\* first n
Malform(how, n) ==
    LET fields == Split(wire.s, DOT)
        s == IF how = "append" THEN wire.s \o <<DOT>> \o ToBase64(<<0>>)
             ELSE IF how = "drop" THEN Join(SubSeq(fields, 1, Len(fields) - 1), <<DOT>>)
             ELSE IF how = "shorttag"
             THEN Join([fields EXCEPT ![2] = ToBase64(SubSeq(FromBase64(fields[2]), 1, n))],
                       <<DOT>>)
             ELSE SubSeq(wire.s, 1, Min(n, Len(wire.s)))
    IN  /\ pc = "sent"
        /\ IF how = "truncate" THEN sent.this.binaryMode /\ n < Len(wire.s)
           ELSE ~sent.this.binaryMode
        /\ wire' = [present |-> TRUE, s |-> s, change |-> how]
        /\ pc' = "altered"
        /\ UNCHANGED <<processEnv, AESUTIL_JS_AES_ENCRYPTION_KEY, earlier, aesUtil, sent, lastCall>>

\* out = encryptValue(value, associatedData, key)
EncryptValue(value, associatedData, key, iv) ==
    LET r == encryptValue(value, associatedData, key, iv, AESUTIL_JS_AES_ENCRYPTION_KEY)
    IN  /\ pc = "start"
        /\ lastCall' = Call("encryptValue", NoInstance,
                            [value |-> value, key |-> key, iv |-> iv],
                            associatedData, r)
        /\ wire' = IF r.ok THEN [present |-> TRUE, s |-> r.value, change |-> "none"]
                   ELSE wire
        /\ pc' = IF r.ok THEN "wrapped" ELSE "done"
        /\ UNCHANGED <<processEnv, AESUTIL_JS_AES_ENCRYPTION_KEY, earlier, aesUtil, sent>>

\* decryptValue(wire, associatedData, key)
DecryptValue(associatedData, key) ==
    /\ pc = "wrapped"
    /\ lastCall' = Call("decryptValue", NoInstance,
                        [value |-> wire.s, key |-> key, iv |-> <<>>],
                        associatedData,
                        decryptValue(wire.s, associatedData, key,
                                     AESUTIL_JS_AES_ENCRYPTION_KEY))
    /\ pc' = "done"
    /\ UNCHANGED <<processEnv, AESUTIL_JS_AES_ENCRYPTION_KEY, earlier, aesUtil, sent, wire>>

\* the IV lengths of another producer of envelopes
ForeignIvLens == {IV_BYTE_LEN - 1, IV_BYTE_LEN + 4}

\* what arrives is not the envelope encrypt returned but the one another
\* AES-256-GCM implementation holding the same key made of the same
\* plaintext and associated data, with an IV of n bytes
Foreign(n) ==
    LET iv == SubSeq(sent.iv \o sent.iv, 1, n)
        r == encrypt(sent.this, sent.plaintext, sent.associatedData, iv)
    IN  /\ pc = "sent"
        /\ wire' = [present |-> TRUE, s |-> r.value, change |-> "foreign"]
        /\ pc' = "altered"
        /\ UNCHANGED <<processEnv, AESUTIL_JS_AES_ENCRYPTION_KEY, earlier, aesUtil, sent,
                       lastCall>>

Init ==
    /\ processEnv = Str(ToBase64(KE))
    /\ AESUTIL_JS_AES_ENCRYPTION_KEY = processEnv
    /\ aesUtil = NoInstance
    /\ earlier = NoSent
    /\ sent = NoSent
    /\ wire = NoWire
    /\ lastCall = NoCall
    /\ pc = "start"

Next ==
    \/ \E arg \in FacadeCtorArgs : Construct(arg)
    \/ \E p \in Plaintexts, a \in AssociatedDatas, iv \in Ivs : Encrypt(p, a, iv)
    \/ \E a \in AssociatedDatas : Decrypt(a)
    \/ \E name \in PartNames, last \in BOOLEAN : TamperByte(name, last)
    \/ \E k \in 1..3, last \in BOOLEAN : TamperChar(k, last)
    \/ \E how \in {"append", "drop"} : Malform(how, 0)
    \/ \E n \in TruncateLens : Malform("truncate", n)
    \/ \E n \in ShortTagLens : Malform("shorttag", n)
    \/ \E n \in ForeignIvLens : Foreign(n)
    \/ \E v \in Plaintexts, a \in AssociatedDatas, k \in WrapperKeys, iv \in Ivs :
          EncryptValue(v, a, k, iv)
    \/ \E a \in AssociatedDatas, k \in WrapperKeys : DecryptValue(a, k)

Spec == Init /\ [][Next]_vars

\* key resolution alone: every environment, every kind of candidate
InitKey ==
    /\ processEnv \in EnvValues
    /\ AESUTIL_JS_AES_ENCRYPTION_KEY = processEnv
    /\ aesUtil = NoInstance
    /\ earlier = NoSent
    /\ sent = NoSent
    /\ wire = NoWire
    /\ lastCall = NoCall
    /\ pc = "start"

\* process.env.AESUTIL_JS_AES_ENCRYPTION_KEY = v (or delete, for undefined),
\* after the module was loaded and before the program constructs
SetEnv(v) ==
    /\ pc = "start"
    /\ v # processEnv
    /\ processEnv' = v
    /\ UNCHANGED <<AESUTIL_JS_AES_ENCRYPTION_KEY, earlier, aesUtil, sent, wire, lastCall, pc>>

NextKey ==
    \/ \E arg \in KeyCtorArgs : Construct(arg)
    \/ \E v \in EnvValues : SetEnv(v)

SpecKey == InitKey /\ [][NextKey]_vars

\* out = encryptValue(value, associatedData, key, iv) of part_003
EncryptValueIv(value, associatedData, key, iv, randomBytes) ==
    /\ pc = "start"
    /\ lastCall' = Call("encryptValueIv", NoInstance,
                        [value |-> value, key |-> key, iv |-> iv,
                         randomBytes |-> randomBytes],
                        associatedData,
                        encryptValueIv(value, associatedData, key, iv, randomBytes,
                                       AESUTIL_JS_AES_ENCRYPTION_KEY))
    /\ pc' = "done"
    /\ UNCHANGED <<processEnv, AESUTIL_JS_AES_ENCRYPTION_KEY, earlier, aesUtil, sent, wire>>

\* IV resolution alone: every kind of IV candidate, with and without a key
InitIv ==
    /\ processEnv \in {Undefined, Str(ToBase64(KE))}
    /\ AESUTIL_JS_AES_ENCRYPTION_KEY = processEnv
    /\ aesUtil = NoInstance
    /\ earlier = NoSent
    /\ sent = NoSent
    /\ wire = NoWire
    /\ lastCall = NoCall
    /\ pc = "start"

NextIv ==
    \E value \in StringsUpTo(PlainChars, 1), a \in {Undefined, Str(<<65>>)},
       key \in {Undefined, Buf(K1), Buf(Repeat(98, 24))},
       iv \in IvCandidates, randomBytes \in Ivs :
        EncryptValueIv(value, a, key, iv, randomBytes)

SpecIv == InitIv /\ [][NextIv]_vars

\* longest ciphertext given to the codec, in bytes
MaxCipherLen == 2

\* bytes of the parts given to the codec: 0, '.', and two whose Base64
\* digits are '+' and '/'
CodecBytes == {0, DOT, 251, 255}

\* the parts given to the codec: any 12 bytes, any 16 bytes, any bytes
CodecParts ==
    {Parts(iv, authTag, ciphertext) :
        iv \in Ivs,
        authTag \in {Repeat(255, AUTH_TAG_LEN), Repeat(DOT, AUTH_TAG_LEN),
                     [i \in 1..AUTH_TAG_LEN |-> (i * 29) % 256]},
        ciphertext \in StringsUpTo(CodecBytes, MaxCipherLen)}

\* wire = this.encodeOutput(parts), this being sent.this and parts sent.parts
EncodeOutput ==
    /\ pc = "start"
    /\ wire' = [present |-> TRUE, s |-> encodeOutput(sent.this, sent.parts),
                change |-> "none"]
    /\ lastCall' = Call("encodeOutput", sent.this, <<>>, Undefined,
                        Ok(encodeOutput(sent.this, sent.parts)))
    /\ pc' = "encoded"
    /\ UNCHANGED <<processEnv, AESUTIL_JS_AES_ENCRYPTION_KEY, earlier, aesUtil, sent>>

\* this.decodeInput(wire)
DecodeInput ==
    /\ pc = "encoded"
    /\ lastCall' = Call("decodeInput", sent.this, wire.s, Undefined,
                        decodeInput(sent.this, wire.s))
    /\ pc' = "done"
    /\ UNCHANGED <<processEnv, AESUTIL_JS_AES_ENCRYPTION_KEY, earlier, aesUtil, sent, wire>>

\* the codec alone: an instance of either mode and parts of every kind
InitCodec ==
    /\ processEnv = Str(ToBase64(KE))
    /\ AESUTIL_JS_AES_ENCRYPTION_KEY = processEnv
    /\ aesUtil \in {[key |-> K1, binaryMode |-> b, plaintextEncoding |-> "utf8"] :
                       b \in BOOLEAN}
    /\ earlier = NoSent
    /\ \E parts \in CodecParts :
          sent = [made |-> FALSE, this |-> aesUtil, plaintext |-> <<>>,
                  associatedData |-> Undefined, iv |-> parts.iv, parts |-> parts,
                  out |-> <<>>]
    /\ wire = NoWire
    /\ lastCall = NoCall
    /\ pc = "start"

NextCodec == EncodeOutput \/ DecodeInput

SpecCodec == InitCodec /\ [][NextCodec]_vars

(* ---------------------------------------------------------------------- *)
(* Properties                                                             *)
(* ---------------------------------------------------------------------- *)

Decrypted == lastCall.op = "decrypt"

\* decrypt was called on the sending instance, with the envelope as encrypt
\* returned it
SameInstanceSameEnvelope ==
    /\ Decrypted
    /\ sent.made
    /\ lastCall.this = sent.this
    /\ wire.change = "none"
    /\ lastCall.input = sent.out

AuthenticationFailure == ~lastCall.result.ok /\ lastCall.result.error = ERR_AUTH

\* p is text of the encoding: hex digits in pairs for "hex", 7-bit
\* characters for "ascii", no lone surrogate for "utf8"
ValidPlaintext(p, encoding) ==
    IF encoding = "hex"
    THEN Len(p) % 2 = 0 /\ \A i \in 1..Len(p) : HexVal(p[i]) < 16
    ELSE IF encoding = "ascii" THEN \A i \in 1..Len(p) : p[i] < 128
    ELSE \A i \in 1..Len(p) : ~IsHighSurrogate(p[i]) /\ ~IsLowSurrogate(p[i])

\* no hex digit of p is one of A-F
LowerCaseHex(p) == \A i \in 1..Len(p) : ~(p[i] >= 65 /\ p[i] <= 70)

C2_AnyOtherAssociatedDataFails ==
    (SameInstanceSameEnvelope /\ lastCall.associatedData # sent.associatedData)
        => AuthenticationFailure

\* C2 (amended): decrypt fails with the authentication error whenever the
\* bytes of its associated data differ from the bytes of the associated data
\* given to encrypt, where absent and the empty string both stand for no bytes;
\* it returns no plaintext.
C2_AssociatedDataBinding ==
    (/\ SameInstanceSameEnvelope
     /\ AadBytes(lastCall.associatedData) # AadBytes(sent.associatedData))
        => AuthenticationFailure

C2_Witness ==
    /\ SameInstanceSameEnvelope
    /\ sent.associatedData = Str(<<65>>)
    /\ lastCall.associatedData = Undefined
    /\ AuthenticationFailure

\* the three parts a reader of the sender's wire format finds in envelope s
PartsOnWire(s) ==
    IF sent.this.binaryMode
    THEN LET b == FromBinary(s)
         IN  Parts(SubSeq(b, 1, Min(12, Len(b))), SubSeq(b, 13, Min(28, Len(b))),
                   SubSeq(b, 29, Len(b)))
    ELSE LET f == Split(s, DOT)
         IN  Parts(FromBase64(f[1]), FromBase64(f[2]), FromBase64(f[3]))

ByteOrCharChanged == wire.change \in PartNames \cup {"char"}

\* C3 as stated: decrypt returns no plaintext for an envelope of which one
\* byte of the IV, tag or ciphertext field was changed.
C3_AnyModifiedEnvelopeFails ==
    (Decrypted /\ ByteOrCharChanged) => AuthenticationFailure

\* C3 (amended): when the change of the envelope changes a byte of the IV,
\* of the tag or of the ciphertext that decodeInput recovers, decrypt (same
\* key, same associated data) fails with the authentication error.
C3_TamperSensitivity ==
    (Decrypted /\ ByteOrCharChanged /\ PartsOnWire(wire.s) # sent.parts)
        => AuthenticationFailure

C3_Witness ==
    /\ Decrypted
    /\ wire.change = "iv"
    /\ ~sent.this.binaryMode
    /\ PartsOnWire(wire.s) # sent.parts
    /\ AuthenticationFailure

\* C4: an envelope made under one key, decrypted by an instance that holds
\* another key, gives the authentication error and no plaintext.
C4_WrongKey ==
    (Decrypted /\ sent.made /\ lastCall.this.key # sent.this.key)
        => AuthenticationFailure

C4_Witness ==
    /\ Decrypted
    /\ sent.made
    /\ lastCall.this.key # sent.this.key
    /\ Len(lastCall.this.key) = KEY_BYTE_LEN
    /\ Len(sent.this.key) = KEY_BYTE_LEN
    /\ AuthenticationFailure

Constructed == lastCall.op = "new"

\* the candidate passed to the constructor, directly or as params.providedKey
ExplicitKey == lastCall.input.providedKey

\* the candidate a construction had to resolve: the explicit one, or the
\* environment value where none (or an empty one) was passed
ResolvedCandidate ==
    IF Truthy(ExplicitKey) THEN ExplicitKey ELSE AESUTIL_JS_AES_ENCRYPTION_KEY

\* the bytes a candidate stands for: its own, or those its Base64 text decodes to
CandidateBytes(c) == IF c.t = "string" THEN FromBase64(c.v) ELSE c.v

Base64Alphabet == (65..90) \cup (97..122) \cup (48..57) \cup {43, 47, 61}

OutsideBase64(str) == \E i \in 1..Len(str) : str[i] \notin Base64Alphabet

\* C5: the key of every constructed instance is exactly 32 bytes and is the
\* candidate's bytes as they are; a Buffer or a Base64 string of any other
\* decoded length makes the constructor throw the key-length error, and no
\* instance results.
C5_KeyLength ==
    /\ aesUtil # NoInstance => Len(aesUtil.key) = KEY_BYTE_LEN
    /\ Constructed =>
         LET c == ResolvedCandidate
         IN  /\ lastCall.result.ok =>
                   /\ lastCall.result.value.key = CandidateBytes(c)
                   /\ Len(CandidateBytes(c)) = KEY_BYTE_LEN
             /\ (/\ Truthy(c)
                 /\ c.t = "string" => ~OutsideBase64(c.v)
                 /\ Len(CandidateBytes(c)) # KEY_BYTE_LEN)
                   => /\ ~lastCall.result.ok
                      /\ lastCall.result.error = ERR_KEY_LENGTH
                      /\ aesUtil = lastCall.this
                      /\ pc = "done"

C5_Witness ==
    /\ Constructed
    /\ ExplicitKey.t = "buffer"
    /\ Len(ExplicitKey.v) = 42
    /\ lastCall.result.error = ERR_KEY_LENGTH

\* C6: a string candidate with a character outside [A-Za-z0-9+/=] makes the
\* constructor throw 'Key must be a Base64-encoded string', whatever the
\* length of what it would decode to.
C6_KeyEncoding ==
    (Constructed /\ ResolvedCandidate.t = "string"
       /\ OutsideBase64(ResolvedCandidate.v))
        => (~lastCall.result.ok /\ lastCall.result.error = ERR_KEY_ENCODING)

C6_Witness ==
    /\ Constructed
    /\ ExplicitKey = Str(Repeat(33, KEY_BYTE_LEN))
    /\ lastCall.result.error = ERR_KEY_ENCODING

\* C7 as stated: an explicit candidate, whenever one is passed, is the one
\* resolved and the environment plays no part; the environment value is used
\* when none is passed; with neither, the missing-key error.
C7_ExplicitKeyAlwaysWins ==
    Constructed =>
        IF ExplicitKey.t # "undefined"
        THEN /\ lastCall.result.ok =>
                   lastCall.result.value.key = CandidateBytes(ExplicitKey)
             /\ lastCall.result = AesUtil(lastCall.input, Undefined)
        ELSE IF AESUTIL_JS_AES_ENCRYPTION_KEY.t # "undefined"
        THEN lastCall.result.ok =>
                lastCall.result.value.key
                    = CandidateBytes(AESUTIL_JS_AES_ENCRYPTION_KEY)
        ELSE lastCall.result = Throw(ERR_KEY_MISSING)

\* C7 (amended): a non-empty explicit candidate (a non-empty string or any
\* Buffer) is the one resolved, and the outcome is the same whatever the
\* environment holds; when no candidate or the empty string is passed, a
\* non-empty environment value is resolved; when that is unset or empty too,
\* the constructor throws the missing-key error.
C7_KeyPrecedence ==
    Constructed =>
        IF Truthy(ExplicitKey)
        THEN /\ lastCall.result.ok =>
                   lastCall.result.value.key = CandidateBytes(ExplicitKey)
             /\ lastCall.result = AesUtil(lastCall.input, Undefined)
        ELSE IF Truthy(AESUTIL_JS_AES_ENCRYPTION_KEY)
        THEN /\ lastCall.result.ok =>
                   lastCall.result.value.key
                       = CandidateBytes(AESUTIL_JS_AES_ENCRYPTION_KEY)
             /\ lastCall.result.error # ERR_KEY_MISSING
        ELSE lastCall.result = Throw(ERR_KEY_MISSING)

C7_Witness ==
    /\ Constructed
    /\ ExplicitKey = Buf(Repeat(98, KEY_BYTE_LEN))
    /\ AESUTIL_JS_AES_ENCRYPTION_KEY = Str(ToBase64(KE))
    /\ lastCall.result.ok
    /\ lastCall.result.value.key = Repeat(98, KEY_BYTE_LEN)

Encrypted == lastCall.op = "encrypt" /\ lastCall.result.ok

\* s is padded standard Base64: whole groups of four characters of the alphabet
PaddedBase64(str) ==
    /\ Len(str) % 4 = 0
    /\ ~OutsideBase64(str)
    /\ \A i \in 1..Len(str) : str[i] = EQUALS => i > Len(str) - 2

\* the bytes encrypt has to encipher
PlainBytes == BufferFrom(sent.plaintext, sent.this.plaintextEncoding)

\* C8: in text mode encrypt returns base64(iv).base64(authTag).base64(ciphertext):
\* exactly two dots, three padded Base64 fields, of which the first decodes to
\* the 12-byte IV getIv drew, the second to a 16-byte tag and the third to
\* the ciphertext.
C8_TextWireFormat ==
    (Encrypted /\ ~lastCall.this.binaryMode) =>
        LET out == lastCall.result.value
            fields == Split(out, DOT)
        IN  /\ Cardinality({i \in 1..Len(out) : out[i] = DOT}) = 2
            /\ Len(fields) = 3
            /\ \A k \in 1..3 : PaddedBase64(fields[k])
            /\ out = ToBase64(sent.iv) \o <<DOT>> \o ToBase64(sent.parts.authTag)
                        \o <<DOT>> \o ToBase64(sent.parts.ciphertext)
            /\ FromBase64(fields[1]) = sent.iv
            /\ Len(sent.iv) = IV_BYTE_LEN
            /\ Len(FromBase64(fields[2])) = AUTH_TAG_LEN
            /\ FromBase64(fields[3]) = sent.parts.ciphertext
            /\ Len(FromBase64(fields[3])) = Len(PlainBytes)

C8_Witness ==
    /\ Encrypted
    /\ ~lastCall.this.binaryMode
    /\ Len(sent.parts.ciphertext) = 2
    /\ Len(Split(lastCall.result.value, DOT)) = 3

\* C9: in binary mode encrypt returns iv (12 bytes), authTag (16 bytes) and
\* ciphertext one after the other and nothing else, so at least 28 bytes and
\* exactly 28 for an empty plaintext; decrypt reads bytes 0..11 as IV,
\* 12..27 as tag and the rest as ciphertext.
C9_BinaryWireFormat ==
    /\ (Encrypted /\ lastCall.this.binaryMode) =>
         LET out == lastCall.result.value
         IN  /\ FromBinary(out) = sent.iv \o sent.parts.authTag \o sent.parts.ciphertext
             /\ ToBinary(FromBinary(out)) = out
             /\ Len(sent.iv) = IV_BYTE_LEN
             /\ Len(sent.parts.authTag) = AUTH_TAG_LEN
             /\ Len(out) = IV_BYTE_LEN + AUTH_TAG_LEN + Len(PlainBytes)
             /\ Len(out) >= IV_BYTE_LEN + AUTH_TAG_LEN
             /\ PlainBytes = <<>> => Len(out) = IV_BYTE_LEN + AUTH_TAG_LEN
    /\ (Decrypted /\ lastCall.this.binaryMode) =>
         LET b == FromBinary(lastCall.input)
             n == Len(b)
             read == decodeInput(lastCall.this, lastCall.input)
         IN  /\ read.ok
             /\ read.value.iv = SubSeq(b, 1, Min(IV_BYTE_LEN, n))
             /\ read.value.authTag
                   = SubSeq(b, IV_BYTE_LEN + 1, Min(IV_BYTE_LEN + AUTH_TAG_LEN, n))
             /\ read.value.ciphertext = SubSeq(b, IV_BYTE_LEN + AUTH_TAG_LEN + 1, n)

C9_Witness ==
    /\ Decrypted
    /\ lastCall.this.binaryMode
    /\ sent.this.binaryMode
    /\ lastCall.input = sent.out
    /\ Len(sent.out) > IV_BYTE_LEN + AUTH_TAG_LEN
    /\ lastCall.result.ok

\* an input the codec has to refuse: text that does not split into exactly
\* three fields, binary data shorter than IV and tag together
Malformed(this, str) ==
    IF this.binaryMode THEN Len(str) < IV_BYTE_LEN + AUTH_TAG_LEN
    ELSE Len(Split(str, DOT)) # 3

\* C10: decrypt throws for every malformed input and returns no plaintext
\* for it.
C10_MalformedRejected ==
    (Decrypted /\ Malformed(lastCall.this, lastCall.input)) => ~lastCall.result.ok

\* the authentication tag decrypt hands to setAuthTag for its last input
\* (none when the codec threw)
DecodedInput == decodeInput(lastCall.this, lastCall.input)

\* C11: every input to decrypt whose tag slot decodes to a length other
\* than 16 bytes makes decrypt fail; no tag of another length is accepted
\* as authenticating an envelope.
C11_TagLength ==
    (/\ Decrypted
     /\ DecodedInput.ok
     /\ Len(DecodedInput.value.authTag) # AUTH_TAG_LEN) => ~lastCall.result.ok

\* C12: the IV handed to the cipher is exactly 12 bytes in every encrypt
\* call, and every input to decrypt whose IV field decodes to another length
\* is rejected.
C12_IvLength ==
    /\ Encrypted => Len(sent.iv) = IV_BYTE_LEN /\ Len(sent.parts.iv) = IV_BYTE_LEN
    /\ (/\ Decrypted
        /\ DecodedInput.ok
        /\ Len(DecodedInput.value.iv) # IV_BYTE_LEN) => ~lastCall.result.ok

\* the last two calls were encrypt calls of one instance with the same
\* plaintext and associated data
EncryptedTwice ==
    /\ Encrypted
    /\ earlier.made
    /\ earlier.this = sent.this
    /\ earlier.plaintext = sent.plaintext
    /\ earlier.associatedData = sent.associatedData

\* C13: every encrypt call uses the 12 bytes getIv drew for it: they are
\* the IV of the returned envelope and of the parts the cipher produced; the
\* instance holds no IV and is as it was before the call; and of two encrypt
\* calls with identical inputs, the envelopes differ whenever the draws do.
C13_FreshIv ==
    /\ Encrypted =>
          /\ Len(sent.iv) = IV_BYTE_LEN
          /\ sent.parts.iv = sent.iv
          /\ decodeInput(sent.this, sent.out).value.iv = sent.iv
          /\ sent.out = lastCall.result.value
          /\ aesUtil = sent.this
          /\ DOMAIN aesUtil = {"key", "binaryMode", "plaintextEncoding"}
    /\ EncryptedTwice => (earlier.iv # sent.iv => earlier.out # sent.out)

C13_Witness ==
    /\ EncryptedTwice
    /\ earlier.iv # sent.iv
    /\ earlier.out # sent.out
    /\ Len(sent.plaintext) > 0
    /\ decodeInput(sent.this, sent.out).value.iv = sent.iv

\* the IV candidate of the last call of part_003's encryptValue
IvCandidate == lastCall.input.iv

\* the IV field of the envelope the last call returned
IvOfResult == FromBase64(Split(lastCall.result.value, DOT)[1])

InstanceOfKey == AesUtil(KeyArg(lastCall.input.key), AESUTIL_JS_AES_ENCRYPTION_KEY)

\* the key new AesUtil() holds
EnvironmentKey == FromBase64(AESUTIL_JS_AES_ENCRYPTION_KEY.v)

\* C16: encryptValue(v, a, k) returns what new AesUtil(k).encrypt(v, a)
\* returns under the same IV and decryptValue(v, a, k) returns or throws what
\* new AesUtil(k).decrypt(v, a) does; without k both use the environment
\* key; the envelope is the text envelope of the UTF-8 plaintext.
C16_WrapperEquivalence ==
    /\ lastCall.op = "encryptValue" =>
          /\ lastCall.result =
                IF InstanceOfKey.ok
                THEN Outcome(encrypt(InstanceOfKey.value, lastCall.input.value,
                                     lastCall.associatedData, lastCall.input.iv))
                ELSE InstanceOfKey
          /\ lastCall.result.ok =>
                LET key == IF lastCall.input.key.t = "undefined" THEN EnvironmentKey
                           ELSE InstanceOfKey.value.key
                    fields == Split(lastCall.result.value, DOT)
                IN  /\ Len(fields) = 3
                    /\ FromBase64(fields[1]) = lastCall.input.iv
                    /\ FromBase64(fields[3]) =
                         GcmCrypt(key, lastCall.input.iv,
                                  Utf8Encode(lastCall.input.value, 1), TRUE)
    /\ lastCall.op = "decryptValue" =>
          lastCall.result =
             IF InstanceOfKey.ok
             THEN decrypt(InstanceOfKey.value, lastCall.input.value,
                          lastCall.associatedData)
             ELSE InstanceOfKey

\* decryptValue without a key returned the plaintext of an envelope of
\* encryptValue, as decrypt of an instance holding the environment key does
C16_Witness ==
    /\ lastCall.op = "decryptValue"
    /\ lastCall.input.key.t = "undefined"
    /\ lastCall.result.ok
    /\ Len(lastCall.result.value) > 0
    /\ lastCall.result =
         decrypt([key |-> EnvironmentKey, binaryMode |-> FALSE,
                  plaintextEncoding |-> "utf8"],
                 lastCall.input.value, lastCall.associatedData)

\* the instance the last construction made
Instance == lastCall.result.value

\* binaryMode and plaintextEncoding are the supplied ones, or the defaults
\* where the argument is not a params object or omits them
ModeAndEncodingAsSupplied ==
    /\ Instance.binaryMode =
          IF lastCall.input.kind = "params" /\ lastCall.input.binaryMode.t = "boolean"
          THEN lastCall.input.binaryMode.v ELSE FALSE
    /\ Instance.plaintextEncoding =
          IF lastCall.input.kind = "params"
             /\ lastCall.input.plaintextEncoding.t = "string"
          THEN lastCall.input.plaintextEncoding.v ELSE "utf8"
    /\ aesUtil = Instance

\* C17 as stated: the key of the instance is the supplied key (a Buffer
\* itself, a string decoded), given directly or as providedKey, and the
\* environment key only when none is supplied; binaryMode and
\* plaintextEncoding are the supplied ones or the defaults.
C17_SuppliedKeyIsTheKey ==
    (Constructed /\ lastCall.result.ok) =>
        /\ Instance.key =
              IF ExplicitKey.t = "undefined"
              THEN CandidateBytes(AESUTIL_JS_AES_ENCRYPTION_KEY)
              ELSE CandidateBytes(ExplicitKey)
        /\ ModeAndEncodingAsSupplied

\* C17 (amended): the key of the instance is the supplied key (a Buffer
\* itself, a string decoded) when a Buffer or a non-empty string is given,
\* directly or as providedKey, and the environment key when none or the
\* empty string is given; binaryMode and plaintextEncoding are the supplied
\* ones or the defaults.
C17_Configuration ==
    (Constructed /\ lastCall.result.ok) =>
        /\ Instance.key =
              IF Truthy(ExplicitKey)
              THEN CandidateBytes(ExplicitKey)
              ELSE CandidateBytes(AESUTIL_JS_AES_ENCRYPTION_KEY)
        /\ Len(Instance.key) = KEY_BYTE_LEN
        /\ ModeAndEncodingAsSupplied

C17_Witness ==
    /\ Constructed
    /\ lastCall.result.ok
    /\ lastCall.input.kind = "params"
    /\ ExplicitKey = Buf(K1)
    /\ lastCall.input.binaryMode = [t |-> "boolean", v |-> TRUE]
    /\ lastCall.input.plaintextEncoding = [t |-> "string", v |-> "ascii"]
    /\ aesUtil = [key |-> K1, binaryMode |-> TRUE, plaintextEncoding |-> "ascii"]

\* decrypt was called with the envelope as encrypt returned it, by an
\* instance holding the sender's key in the other mode
OtherMode ==
    /\ Decrypted
    /\ sent.made
    /\ wire.change = "none"
    /\ lastCall.input = sent.out
    /\ lastCall.this.key = sent.this.key
    /\ lastCall.this.binaryMode # sent.this.binaryMode

\* C18: an envelope of a binary-mode instance given to decrypt of a
\* text-mode instance with the same key, and an envelope of a text-mode
\* instance given to a binary-mode one, makes decrypt throw (the codec's
\* error for missing fields, the cipher's for an unusable IV or tag, or the
\* authentication error); decrypt returns no plaintext.
C18_ModeIsolation ==
    OtherMode =>
        /\ ~lastCall.result.ok
        /\ lastCall.result.error \in
              {ERR_AUTH, ERR_INVALID_ARG_TYPE, ERR_INVALID_IV, ERR_INVALID_TAG_LENGTH}

\* a text envelope failed authentication on a binary-mode instance
C18_Witness ==
    /\ OtherMode
    /\ lastCall.this.binaryMode
    /\ Len(sent.plaintext) > 0
    /\ AuthenticationFailure

C20_ReadAtResolution ==
    (Constructed /\ ~Truthy(ExplicitKey)) =>
        lastCall.result = AesUtil(lastCall.input, processEnv)

\* why the cipher cannot authenticate what decrypt was given: another key,
\* other associated data, or a byte of the IV, the tag or the ciphertext
\* replaced by another
WrongKey == lastCall.this.key # sent.this.key

WrongAssociatedData ==
    AadBytes(lastCall.associatedData) # AadBytes(sent.associatedData)

Corrupted(name) ==
    \/ wire.change = name
    \/ /\ wire.change = "char"
       /\ PartsOnWire(wire.s) # sent.parts
       /\ \/ name = "iv" /\ PartsOnWire(wire.s).iv # sent.parts.iv
          \/ name = "authTag" /\ PartsOnWire(wire.s).authTag # sent.parts.authTag
          \/ name = "ciphertext"
             /\ PartsOnWire(wire.s).ciphertext # sent.parts.ciphertext

\* C21: whichever of these causes makes decrypt fail (a wrong key, wrong or
\* absent associated data, a corrupted ciphertext, tag or IV), decrypt
\* throws one and the same error, 'Unsupported state or unable to
\* authenticate data', and returns nothing: what the caller sees does not
\* tell the causes apart.
C21_SingleAuthenticationError ==
    (/\ Decrypted
     /\ sent.made
     /\ \/ WrongKey
        \/ WrongAssociatedData
        \/ \E name \in PartNames : Corrupted(name))
        => lastCall.result = Throw(ERR_AUTH)

\* decrypt without the associated data of the envelope threw the
\* authentication error in binary mode
C21_Witness ==
    /\ Decrypted
    /\ sent.made
    /\ sent.this.binaryMode
    /\ Truthy(sent.associatedData)
    /\ lastCall.associatedData = Undefined
    /\ ~WrongKey
    /\ wire.change = "none"
    /\ lastCall.result = Throw(ERR_AUTH)

\* C22: encrypt writes the plaintext string as bytes in the instance's
\* plaintextEncoding (UTF-8 unless configured), the ciphertext of the
\* envelope has exactly as many bytes, and a decrypt that succeeds returns
\* the recovered bytes read as a string in the plaintextEncoding of the
\* instance that decrypts.
C22_PlaintextEncoding ==
    /\ Encrypted =>
          /\ Len(PartsOnWire(sent.out).ciphertext) = Len(PlainBytes)
          /\ PartsOnWire(sent.out).ciphertext =
                GcmCrypt(sent.this.key, sent.iv, PlainBytes, TRUE)
          /\ sent.this.plaintextEncoding = "utf8" =>
                PlainBytes = Utf8Encode(sent.plaintext, 1)
          /\ sent.this.plaintextEncoding = "hex" =>
                Len(PlainBytes) * 2 <= Len(sent.plaintext)
    /\ (Decrypted /\ sent.made /\ lastCall.result.ok) =>
          lastCall.result.value =
             BufferToString(PlainBytes, lastCall.this.plaintextEncoding)

\* the hex plaintext '4A' became one ciphertext byte and came back as '4a'
C22_Witness ==
    /\ Decrypted
    /\ sent.made
    /\ sent.this.plaintextEncoding = "hex"
    /\ lastCall.this.plaintextEncoding = "hex"
    /\ sent.plaintext = <<52, 65>>
    /\ Len(PartsOnWire(sent.out).ciphertext) = 1
    /\ lastCall.result.ok
    /\ lastCall.result.value = <<52, 97>>

\* the tag decrypt was given is the one the cipher computes for the IV, the
\* ciphertext and the associated data it was given
TagVerifies ==
    DecodedInput.value.authTag =
        SubSeq(GcmTag(lastCall.this.key, DecodedInput.value.iv,
                      AadBytes(lastCall.associatedData),
                      DecodedInput.value.ciphertext),
               1, Len(DecodedInput.value.authTag))

\* C23: every encrypt and decrypt call, of an instance or through the
\* wrappers, either returns a complete result or throws and returns
\* nothing; when the tag does not verify, decrypt throws and no byte the
\* cipher had already deciphered reaches the caller; an encrypt that throws
\* leaves no envelope.
C23_NoPartialSuccess ==
    /\ lastCall.op \in {"encrypt", "decrypt", "encryptValue", "decryptValue"} =>
          \/ lastCall.result.ok /\ lastCall.result.error = ""
          \/ /\ ~lastCall.result.ok
             /\ lastCall.result.value = <<>>
             /\ lastCall.result.error # ""
    /\ (Decrypted /\ DecodedInput.ok /\ ~TagVerifies) =>
          ~lastCall.result.ok /\ lastCall.result.value = <<>>
    /\ (Decrypted /\ lastCall.result.ok) =>
          lastCall.result.value =
             BufferToString(GcmCrypt(lastCall.this.key, DecodedInput.value.iv,
                                     DecodedInput.value.ciphertext, FALSE),
                            lastCall.this.plaintextEncoding)
    /\ Encrypted =>
          /\ PartsOnWire(lastCall.result.value) = sent.parts
          /\ Len(sent.parts.authTag) = AUTH_TAG_LEN
    /\ (lastCall.op = "encrypt" /\ ~lastCall.result.ok) => ~sent.made /\ ~wire.present

\* a tag that does not verify: decrypt threw, and returned none of the
\* bytes of a ciphertext that is not empty
C23_Witness ==
    /\ Decrypted
    /\ DecodedInput.ok
    /\ ~TagVerifies
    /\ Len(DecodedInput.value.ciphertext) > 0
    /\ Len(DecodedInput.value.authTag) = AUTH_TAG_LEN
    /\ lastCall.result = Throw(ERR_AUTH)

\* C24: for parts with a 12-byte IV, a 16-byte tag and a ciphertext of any
\* length, decodeInput(encodeOutput(parts)) gives back the same three byte
\* sequences in both modes; the text envelope has exactly three fields of
\* Base64 characters, the third one empty exactly for an empty ciphertext,
\* and the binary envelope is 28 bytes and the ciphertext long.
C24_CodecRoundTrip ==
    /\ lastCall.op = "decodeInput" =>
          lastCall.result.ok /\ lastCall.result.value = sent.parts
    /\ lastCall.op \in {"encodeOutput", "decodeInput"} =>
          IF sent.this.binaryMode
          THEN Len(wire.s) = IV_BYTE_LEN + AUTH_TAG_LEN + Len(sent.parts.ciphertext)
          ELSE LET fields == Split(wire.s, DOT)
               IN  /\ Len(fields) = 3
                   /\ \A k \in 1..3 : ~OutsideBase64(fields[k])
                   /\ (fields[3] = <<>>) <=> (sent.parts.ciphertext = <<>>)

\* parts with dots among their bytes and an empty ciphertext came back from
\* the text codec
C24_Witness ==
    /\ lastCall.op = "decodeInput"
    /\ ~sent.this.binaryMode
    /\ sent.parts.ciphertext = <<>>
    /\ sent.parts.authTag = Repeat(DOT, AUTH_TAG_LEN)
    /\ Split(wire.s, DOT)[3] = <<>>
    /\ lastCall.result.ok
    /\ lastCall.result.value = sent.parts

\* the associated data of none of the two calls is bound: each is absent or
\* the empty string
NothingBound(a, b) == {a, b} \subseteq {Undefined, Str(<<>>)}

\* C25: an empty associated-data string is as good as none.  Two encrypt
\* calls of one instance with the same plaintext and the same IV, one with ''
\* and one without associated data, return the same envelope; and an envelope
\* made with '' or without associated data is decrypted by the same instance
\* with '' as well as without, to what the plaintext round-trips to.
C25_EmptyIsAbsent ==
    /\ (/\ Encrypted
        /\ earlier.made
        /\ earlier.this = sent.this
        /\ earlier.plaintext = sent.plaintext
        /\ earlier.iv = sent.iv
        /\ NothingBound(earlier.associatedData, sent.associatedData))
           => earlier.out = sent.out
    /\ (/\ SameInstanceSameEnvelope
        /\ NothingBound(sent.associatedData, lastCall.associatedData))
           => /\ lastCall.result.ok
              /\ lastCall.result.value =
                    BufferToString(PlainBytes, sent.this.plaintextEncoding)

\* an envelope made with '' was decrypted without associated data
C25_Witness ==
    /\ SameInstanceSameEnvelope
    /\ sent.associatedData = Str(<<>>)
    /\ lastCall.associatedData = Undefined
    /\ Len(sent.plaintext) > 0
    /\ lastCall.result.ok
    /\ lastCall.result.value = sent.plaintext

====
